---- MODULE Spec2Model ----
(***************************************************************************)
(* Model of s3-link-generator.py: the Lambda handler that turns an S3      *)
(* "object created" notification into a pre-signed URL and republishes it  *)
(* on EventBridge, and its helper format_expiration_time.                  *)
(*                                                                         *)
(* Python strings that are only compared are TLA+ strings; strings whose   *)
(* characters matter (the configured expiration, the formatted label) are  *)
(* sequences of one-character strings.  A message built with an f-string   *)
(* is the sequence of its pieces.                                          *)
(***************************************************************************)
EXTENDS Integers, Sequences, FiniteSets, TLC

\* ------------------------------------------------------------------ bounds
\* Number of invocations of lambda_handler that may be in flight or finished.
NumInvocations == 2
\* format_expiration_time is exercised on every n within MaxDelta of a
\* branch boundary or of a multiple (up to MaxCount) of a unit.
MaxDelta == 3
MaxCount == 3

Invocations == 1..NumInvocations

\* ------------------------------------------------------- JSON / Python values
JNull == [t |-> "null"]
JStr(s) == [t |-> "str", s |-> s]
JMap(f) == [t |-> "map", m |-> f]
EmptyDict == JMap(<< >>)

\* Name of the Python type, as it appears in an AttributeError message.
TypeName(v) ==
  CASE v.t = "null" -> "NoneType"
    [] v.t = "str" -> "str"
    [] v.t = "map" -> "dict"

\* Python truthiness (the `not x` tests of line 38).
Truthy(v) ==
  CASE v.t = "null" -> FALSE
    [] v.t = "str" -> v.s # ""
    [] v.t = "map" -> DOMAIN v.m # {}

\* dict.get(k, default) on a value already known to be a dict.
DictGet(v, k, default) == IF k \in DOMAIN v.m THEN v.m[k] ELSE default

\* An exception object: its class and str(e), as a sequence of pieces.
Exc(cls, msg) == [cls |-> cls, msg |-> msg]
NoExc == Exc("", << >>)
AttributeError(v) ==
  Exc("AttributeError", <<"'", TypeName(v), "' object has no attribute 'get'">>)

\* The outcome of evaluating an expression: a value, or a raised exception.
Value(v) == [raised |-> FALSE, val |-> v, exc |-> NoExc]
Raise(e) == [raised |-> TRUE, val |-> JNull, exc |-> e]

\* event.get('detail', {}).get(outer, {}).get(inner): .get on anything that
\* is not a dict raises AttributeError.
GetPath(event, outer, inner) ==
  LET d == DictGet(event, "detail", EmptyDict)
  IN  IF d.t # "map" THEN Raise(AttributeError(d))
      ELSE LET x == DictGet(d, outer, EmptyDict)
           IN  IF x.t # "map" THEN Raise(AttributeError(x))
               ELSE Value(DictGet(x, inner, JNull))

\* ------------------------------------------------------------ int <-> text
Digits == <<"0", "1", "2", "3", "4", "5", "6", "7", "8", "9">>
IsDigit(c) == \E k \in 1..10 : Digits[k] = c
DigitVal(c) == (CHOOSE k \in 1..10 : Digits[k] = c) - 1

RECURSIVE NatToStr(_)
NatToStr(n) ==
  IF n < 10 THEN <<Digits[n + 1]>>
  ELSE NatToStr(n \div 10) \o <<Digits[(n % 10) + 1]>>

\* f"{n}" for an int.
IntToStr(n) == IF n < 0 THEN <<"-">> \o NatToStr(-n) ELSE NatToStr(n)

RECURSIVE DigitsToNat(_)
DigitsToNat(s) ==
  IF s = << >> THEN 0
  ELSE 10 * DigitsToNat(SubSeq(s, 1, Len(s) - 1)) + DigitVal(s[Len(s)])

RECURSIVE Strip(_)
Strip(s) ==
  IF s = << >> THEN s
  ELSE IF s[1] = " " THEN Strip(Tail(s))
  ELSE IF s[Len(s)] = " " THEN Strip(SubSeq(s, 1, Len(s) - 1))
  ELSE s

\* int(s) for a str: surrounding whitespace, an optional sign, decimal digits.
\* (Digit grouping with "_" is not modelled; no configured value uses it.)
ParseInt(s) ==
  LET t == Strip(s)
      signed == t # << >> /\ t[1] \in {"+", "-"}
      body == IF signed THEN Tail(t) ELSE t
      bad == Exc("ValueError",
                 <<"invalid literal for int() with base 10: '">> \o s \o <<"'">>)
  IN  IF body = << >> \/ \E k \in 1..Len(body) : ~IsDigit(body[k])
      THEN [raised |-> TRUE, val |-> 0, exc |-> bad]
      ELSE [raised |-> FALSE,
            val |-> IF signed /\ t[1] = "-" THEN -DigitsToNat(body)
                    ELSE DigitsToNat(body),
            exc |-> NoExc]

\* --------------------------------------------------- format_expiration_time
SecondsWord == <<" ", "s", "e", "c", "o", "n", "d", "s">>
MinuteWord == <<" ", "m", "i", "n", "u", "t", "e">>
HourWord == <<" ", "h", "o", "u", "r">>
DayWord == <<" ", "d", "a", "y">>

\* f"{count} {word}{'s' if count != 1 else ''}"
Pluralised(count, word) ==
  IntToStr(count) \o word \o (IF count # 1 THEN <<"s">> ELSE << >>)

format_expiration_time_boundary(seconds) ==
  IF seconds < 60 THEN IntToStr(seconds) \o SecondsWord
  ELSE IF seconds <= 3600 THEN Pluralised(seconds \div 60, MinuteWord)
  ELSE IF seconds < 86400 THEN Pluralised(seconds \div 3600, HourWord)
  ELSE Pluralised(seconds \div 86400, DayWord)

format_expiration_time(seconds) ==
  IF seconds < 60 THEN IntToStr(seconds) \o SecondsWord
  ELSE IF seconds < 3600 THEN Pluralised(seconds \div 60, MinuteWord)
  ELSE IF seconds < 86400 THEN Pluralised(seconds \div 3600, HourWord)
  ELSE Pluralised(seconds \div 86400, DayWord)

\* ------------------------------------------------------------- environment
\* os.environ: a function from the names that are set to their values.
\* AWS_REGION is always set by the Lambda runtime.
Environments ==
  { [AWS_REGION |-> "us-east-1"],
    [AWS_REGION |-> "us-east-1", URL_EXPIRATION_SECONDS |-> <<"9", "0">>,
     EVENT_SOURCE |-> "custom-source", EVENT_DETAIL_TYPE |-> "custom-type"],
    [AWS_REGION |-> "us-east-1",
     URL_EXPIRATION_SECONDS |-> <<" ", "7", "2", "0", "0">>,
     EVENT_BUS_NAME |-> "custom-bus"],
    [AWS_REGION |-> "us-east-1", URL_EXPIRATION_SECONDS |-> <<"1", "d">>],
    [AWS_REGION |-> "us-east-1", URL_EXPIRATION_SECONDS |-> << >>] }

\* os.environ.get(name, default)
OsEnvironGet(env, name, default) ==
  IF name \in DOMAIN env THEN env[name] ELSE default

DefaultExpiration == 86400

ExpirationSecondsIgnoresConfig(env) ==
  [raised |-> FALSE, val |-> DefaultExpiration, exc |-> NoExc]

\* int(os.environ.get('URL_EXPIRATION_SECONDS', 86400)): the default is
\* already an int, a configured value is a str that int() parses.
ExpirationSeconds(env) ==
  IF "URL_EXPIRATION_SECONDS" \in DOMAIN env
  THEN ParseInt(env["URL_EXPIRATION_SECONDS"])
  ELSE [raised |-> FALSE, val |-> DefaultExpiration, exc |-> NoExc]

\* ------------------------------------------------------------ notifications
Bucket(n) == JMap([name |-> n])
Object(k) == JMap([key |-> k])
Notification(b, o) == JMap([detail |-> JMap([bucket |-> b, object |-> o])])

GoodBucket == Bucket(JStr("my-bucket"))
GoodObject == Object(JStr("report.pdf"))

\* Notifications whose bucket name and object key are non-empty strings.
WellFormedEvents ==
  { Notification(GoodBucket, GoodObject),
    Notification(Bucket(JStr("other-bucket")), Object(JStr("img/a.png"))) }

\* Notifications in which the name or the key cannot be found or is empty.
MalformedEvents ==
  { JMap([source |-> JStr("aws.s3")]),
    JMap([detail |-> JNull]),
    JMap([detail |-> JStr("oops")]),
    JMap([detail |-> EmptyDict]),
    JMap([detail |-> JMap([object |-> GoodObject])]),
    Notification(JNull, GoodObject),
    Notification(JStr("my-bucket"), GoodObject),
    Notification(EmptyDict, GoodObject),
    Notification(Bucket(JNull), GoodObject),
    Notification(Bucket(JStr("")), GoodObject),
    JMap([detail |-> JMap([bucket |-> GoodBucket])]),
    Notification(GoodBucket, JNull),
    Notification(GoodBucket, JStr("report.pdf")),
    Notification(GoodBucket, EmptyDict),
    Notification(GoodBucket, Object(JNull)),
    Notification(GoodBucket, Object(JStr(""))) }

Events == WellFormedEvents \cup MalformedEvents

\* --------------------------------------------------------- external services
ClientError(code) ==
  Exc("ClientError", <<"An error occurred (", code, ")">>)
IsClientError(e) == e.cls = "ClientError"

SignedUrls == {"https://s3/signed?sig=A", "https://s3/signed?sig=B"}

\* What s3_client.generate_presigned_url can do: return a URL, raise a
\* ClientError, or raise something else (no credentials, bad parameters).
SignResponses ==
  {[ok |-> TRUE, url |-> u, exc |-> NoExc] : u \in SignedUrls}
  \cup {[ok |-> FALSE, url |-> "", exc |-> ClientError(c)] :
          c \in {"AccessDenied", "NoSuchBucket"}}
  \cup {[ok |-> FALSE, url |-> "",
         exc |-> Exc("NoCredentialsError", <<"Unable to locate credentials">>)]}

\* What eventbridge_client.put_events can do: return a response whose
\* FailedEntryCount says how many entries the bus did not accept (the call
\* does not raise for a rejected entry), raise a ClientError, or raise
\* something else.
PublishResponses ==
  {[ok |-> TRUE, FailedEntryCount |-> n, exc |-> NoExc] : n \in {0, 1}}
  \cup {[ok |-> FALSE, FailedEntryCount |-> 0,
         exc |-> ClientError("ResourceNotFoundException")]}
  \cup {[ok |-> FALSE, FailedEntryCount |-> 0,
         exc |-> Exc("EndpointConnectionError", <<"Could not connect">>)]}

\* datetime.utcnow().isoformat() as read by the i-th invocation: the clock
\* has moved on between arrivals.
UtcNowIsoformat(i) == <<"2024-01-01T00:00:">> \o IntToStr(i)

\* ------------------------------------------------------------------- state
VARIABLES
  environ,  \* os.environ of the process, read-only
  pc,       \* per invocation: "idle", "sign", "publish" or "done"
  event,    \* per invocation: the notification it was invoked with
  locals,   \* per invocation: the handler's local variables
  calls,    \* per invocation: the outbound calls made, with their responses
  log,      \* per invocation: what it wrote to the logger
  result,   \* per invocation: what the caller got back
  fmtIn,    \* argument of a direct call of format_expiration_time
  fmtOut    \* its return value, << >> before the call

vars == <<environ, pc, event, locals, calls, log, result, fmtIn, fmtOut>>

EmptyPayload ==
  [fileName |-> "", fileUrl |-> "", bucket |-> "", expirationTime |-> << >>,
   timestamp |-> << >>]

NoLocals ==
  [bucket_name |-> "", object_key |-> "", expiration_seconds |-> 0,
   expiration_text |-> << >>, presigned_url |-> "", payload |-> EmptyPayload]

\* json.dumps of a str: the text in double quotes (no message used here
\* holds a character that JSON escapes).
JsonDumpsStr(pieces) == <<"\"">> \o pieces \o <<"\"">>

\* json.dumps of the payload dict: its items in insertion order.
JsonDumpsPayload(p) ==
  << <<"fileName", p.fileName>>, <<"fileUrl", p.fileUrl>>,
     <<"bucket", p.bucket>>, <<"expirationTime", p.expirationTime>>,
     <<"timestamp", p.timestamp>> >>

NoResult == [kind |-> "none", statusCode |-> 0, body |-> << >>]
Return(code, message) ==
  [kind |-> "return", statusCode |-> code, body |-> JsonDumpsStr(message)]

LogEntry(level, text, args) == [level |-> level, text |-> text, args |-> args]

\* What one step of the handler does: where it goes next, what it returns,
\* its locals afterwards, what it logs and which outbound call it made.
Step(next, res, loc, logged, called) ==
  [next |-> next, result |-> res, locals |-> loc, log |-> logged,
   calls |-> called]

UnexpectedErrorPropagates(e) ==
  [kind |-> "raise", statusCode |-> 0, body |-> e.msg]

\* except Exception as e (lines 106-111): the value returned.
UnexpectedError(e) == Return(500, <<"Unexpected error: ">> \o e.msg)

\* An exception reaching the outermost handler ends the invocation.
Caught(e, loc, logged, called) ==
  Step("done", UnexpectedError(e), loc,
       logged \o <<LogEntry("ERROR", "Unexpected error: ", e.msg)>>, called)

\* Lines 32-47: log the event, extract and validate bucket and key, resolve
\* the expiration.
Begin(ev, env) ==
  LET received == <<LogEntry("INFO", "Received event: ", <<ev>>)>>
      bn == GetPath(ev, "bucket", "name")
      ok == GetPath(ev, "object", "key")
      es == ExpirationSeconds(env)
  IN  IF bn.raised THEN Caught(bn.exc, NoLocals, received, << >>)
      ELSE IF ok.raised THEN Caught(ok.exc, NoLocals, received, << >>)
      ELSE IF ~Truthy(bn.val) \/ ~Truthy(ok.val)
      THEN Step("done", Return(400, <<"Invalid event structure">>), NoLocals,
                received \o <<LogEntry("ERROR",
                   "Failed to extract bucket name or object key from event",
                   << >>)>>, << >>)
      ELSE LET loc == [NoLocals EXCEPT !.bucket_name = bn.val.s,
                                       !.object_key = ok.val.s]
           IN  IF es.raised THEN Caught(es.exc, loc, received, << >>)
               ELSE Step("sign", NoResult,
                         [loc EXCEPT !.expiration_seconds = es.val,
                            !.expiration_text = format_expiration_time(es.val)],
                         received, << >>)

\* The call s3_client.generate_presigned_url(...) of lines 51-58.
SignCall(loc, resp) ==
  [op |-> "generate_presigned_url", ClientMethod |-> "get_object",
   Bucket |-> loc.bucket_name, Key |-> loc.object_key,
   ExpiresIn |-> loc.expiration_seconds, resp |-> resp]

BuildPayloadSwapped(loc, url, now) ==
  [fileName |-> loc.bucket_name, fileUrl |-> url, bucket |-> loc.object_key,
   expirationTime |-> loc.expiration_text, timestamp |-> now]

\* The payload dict of lines 68-74.
BuildPayload(loc, url, now) ==
  [fileName |-> loc.object_key, fileUrl |-> url, bucket |-> loc.bucket_name,
   expirationTime |-> loc.expiration_text, timestamp |-> now]

SignErrorWithCause(e) ==
  Return(500, <<"Error generating pre-signed URL: ">> \o e.msg)

\* except ClientError as e (lines 60-65): the value returned.
SignError(e) == Return(500, <<"Error generating pre-signed URL">>)

SignStepRetries(loc, resp, now) ==
  IF resp.ok
  THEN Step("publish", NoResult,
            [loc EXCEPT !.presigned_url = resp.url,
                        !.payload = BuildPayload(loc, resp.url, now)],
            <<LogEntry("INFO", "Generated pre-signed URL for ",
                       <<loc.bucket_name, "/", loc.object_key>>)>>,
            <<SignCall(loc, resp)>>)
  ELSE Step("sign", NoResult, loc,
            <<LogEntry("ERROR", "Failed to generate pre-signed URL: ",
                       resp.exc.msg)>>,
            <<SignCall(loc, resp)>>)

SignStepSwallowsError(loc, resp, now) ==
  Step("publish", NoResult,
       [loc EXCEPT !.presigned_url = resp.url,
                   !.payload = BuildPayload(loc, resp.url, now)],
       <<LogEntry("INFO", "Generated pre-signed URL for ",
                  <<loc.bucket_name, "/", loc.object_key>>)>>,
       <<SignCall(loc, resp)>>)

\* Lines 50-74: request the signed URL; on success build the payload.
SignStep(loc, resp, now) ==
  IF resp.ok
  THEN Step("publish", NoResult,
            [loc EXCEPT !.presigned_url = resp.url,
                        !.payload = BuildPayload(loc, resp.url, now)],
            <<LogEntry("INFO", "Generated pre-signed URL for ",
                       <<loc.bucket_name, "/", loc.object_key>>)>>,
            <<SignCall(loc, resp)>>)
  ELSE IF IsClientError(resp.exc)
  THEN Step("done", SignError(resp.exc), loc,
            <<LogEntry("ERROR", "Failed to generate pre-signed URL: ",
                       resp.exc.msg)>>,
            <<SignCall(loc, resp)>>)
  ELSE Caught(resp.exc, loc, << >>, <<SignCall(loc, resp)>>)

\* The call eventbridge_client.put_events(Entries=[...]) of lines 83-92,
\* with the configuration read at lines 77-79.
PublishCall(loc, env, resp) ==
  [op |-> "put_events",
   Entries |-> << [Source |-> OsEnvironGet(env, "EVENT_SOURCE",
                                           "s3-link-generator"),
                   DetailType |-> OsEnvironGet(env, "EVENT_DETAIL_TYPE",
                                               "file-link-generated"),
                   Detail |-> JsonDumpsPayload(loc.payload),
                   EventBusName |-> OsEnvironGet(env, "EVENT_BUS_NAME",
                                                 "default")] >>,
   resp |-> resp]

\* Lines 76-104: publish the event; the response is logged, not inspected.
PublishStep(loc, env, resp) ==
  IF resp.ok
  THEN Step("done",
            Return(200, <<"Successfully generated pre-signed URL and published event">>),
            loc,
            <<LogEntry("INFO", "Published event to EventBridge: ", <<resp>>)>>,
            <<PublishCall(loc, env, resp)>>)
  ELSE IF IsClientError(resp.exc)
  THEN Step("done", Return(500, <<"Error publishing event to EventBridge">>),
            loc,
            <<LogEntry("ERROR", "Failed to publish event to EventBridge: ",
                       resp.exc.msg)>>,
            <<PublishCall(loc, env, resp)>>)
  ELSE Caught(resp.exc, loc, << >>, <<PublishCall(loc, env, resp)>>)

\* ----------------------------------------------------------------- actions
Apply(i, st) ==
  /\ pc' = [pc EXCEPT ![i] = st.next]
  /\ result' = [result EXCEPT ![i] = st.result]
  /\ locals' = [locals EXCEPT ![i] = st.locals]
  /\ log' = [log EXCEPT ![i] = @ \o st.log]
  /\ calls' = [calls EXCEPT ![i] = @ \o st.calls]

\* The trigger invokes lambda_handler(event, context); the handler runs up
\* to its first outbound call.  Invocations are numbered in order of arrival.
Invoke(i) ==
  /\ pc[i] = "idle"
  /\ i > 1 => pc[i - 1] # "idle"
  /\ \E ev \in Events :
       /\ event' = [event EXCEPT ![i] = ev]
       /\ Apply(i, Begin(ev, environ))
  /\ UNCHANGED <<environ, fmtIn, fmtOut>>

\* Some earlier answer of the signing service for the same bucket and key.
CachedUrls(i) ==
  { calls[j][1].resp.url : j \in { k \in Invocations \ {i} :
        /\ calls[k] # << >>
        /\ calls[k][1].resp.ok
        /\ calls[k][1].Bucket = locals[i].bucket_name
        /\ calls[k][1].Key = locals[i].object_key } }

SignCached(i) ==
  /\ pc[i] = "sign"
  /\ LET now == UtcNowIsoformat(i) IN
       IF CachedUrls(i) # {}
       THEN \E u \in CachedUrls(i) :
              Apply(i, Step("publish", NoResult,
                            [locals[i] EXCEPT !.presigned_url = u,
                               !.payload = BuildPayload(locals[i], u, now)],
                            << >>, << >>))
       ELSE \E resp \in SignResponses :
              Apply(i, SignStep(locals[i], resp, now))
  /\ UNCHANGED <<environ, event, fmtIn, fmtOut>>

\* The signing call returns or raises; the handler runs on to its publish
\* call or to its return.
Sign(i) ==
  /\ pc[i] = "sign"
  /\ \E resp \in SignResponses :
       Apply(i, SignStep(locals[i], resp, UtcNowIsoformat(i)))
  /\ UNCHANGED <<environ, event, fmtIn, fmtOut>>

\* The publish call returns or raises; the handler runs on to its return.
Publish(i) ==
  /\ pc[i] = "publish"
  /\ \E resp \in PublishResponses :
       Apply(i, PublishStep(locals[i], environ, resp))
  /\ UNCHANGED <<environ, event, fmtIn, fmtOut>>

Init ==
  /\ environ \in Environments
  /\ pc = [i \in Invocations |-> "idle"]
  /\ event = [i \in Invocations |-> JNull]
  /\ locals = [i \in Invocations |-> NoLocals]
  /\ calls = [i \in Invocations |-> << >>]
  /\ log = [i \in Invocations |-> << >>]
  /\ result = [i \in Invocations |-> NoResult]
  /\ fmtIn = 0
  /\ fmtOut = << >>

Next == \E i \in Invocations : Invoke(i) \/ Sign(i) \/ Publish(i)

Spec == Init /\ [][Next]_vars

\* ------------------------------------- direct calls of format_expiration_time
FormatInputs ==
  { n \in { k * u + d : k \in 0..MaxCount, u \in {1, 60, 3600, 86400},
                        d \in (-MaxDelta)..MaxDelta } : n >= 0 }
  \cup {30, 90}

FormatCall ==
  /\ fmtOut = << >>
  /\ fmtOut' = format_expiration_time(fmtIn)
  /\ UNCHANGED <<environ, pc, event, locals, calls, log, result, fmtIn>>

FormatInit ==
  /\ environ = [AWS_REGION |-> "us-east-1"]
  /\ pc = [i \in Invocations |-> "idle"]
  /\ event = [i \in Invocations |-> JNull]
  /\ locals = [i \in Invocations |-> NoLocals]
  /\ calls = [i \in Invocations |-> << >>]
  /\ log = [i \in Invocations |-> << >>]
  /\ result = [i \in Invocations |-> NoResult]
  /\ fmtIn \in FormatInputs
  /\ fmtOut = << >>

FormatNext == FormatCall

FormatSpec == FormatInit /\ [][FormatNext]_vars

\* =============================================================== properties
\* What the notification says, read the way a consumer of the documented
\* shape {"detail": {"bucket": {"name": ..}, "object": {"key": ..}}} would:
\* anything absent, null or not a mapping on the way yields null.
Field(v, k) == IF v.t = "map" /\ k \in DOMAIN v.m THEN v.m[k] ELSE JNull
BucketNameOf(ev) == Field(Field(Field(ev, "detail"), "bucket"), "name")
ObjectKeyOf(ev) == Field(Field(Field(ev, "detail"), "object"), "key")
NonEmptyString(v) == v.t = "str" /\ v.s # ""

Started(i) == pc[i] # "idle"
Done(i) == pc[i] = "done"
ValidNotification(i) ==
  /\ Started(i)
  /\ NonEmptyString(BucketNameOf(event[i]))
  /\ NonEmptyString(ObjectKeyOf(event[i]))
MissingNameOrKey(i) ==
  /\ Started(i)
  /\ \/ ~NonEmptyString(BucketNameOf(event[i]))
     \/ ~NonEmptyString(ObjectKeyOf(event[i]))

IsSign(c) == c.op = "generate_presigned_url"
IsPublish(c) == c.op = "put_events"
SignCalls(i) == SelectSeq(calls[i], IsSign)
PublishCalls(i) == SelectSeq(calls[i], IsPublish)
Returned(i, code) ==
  result[i].kind = "return" /\ result[i].statusCode = code

SignFailed(i) == \E k \in 1..Len(calls[i]) :
  IsSign(calls[i][k]) /\ ~calls[i][k].resp.ok
SignSucceeded(i) == \E k \in 1..Len(calls[i]) :
  IsSign(calls[i][k]) /\ calls[i][k].resp.ok
\* The bus accepted the entry: the call returned and reported no failed entry.
Accepted(c) == IsPublish(c) /\ c.resp.ok /\ c.resp.FailedEntryCount = 0
PublishFailed(i) == \E k \in 1..Len(calls[i]) :
  IsPublish(calls[i][k]) /\ ~Accepted(calls[i][k])
PublishSucceeded(i) == \E k \in 1..Len(calls[i]) : Accepted(calls[i][k])

\* C1: every notification in which the bucket name or the object key is
\* missing or empty (detail, bucket or object absent, null or not a mapping
\* included) is answered with statusCode 400, and no outbound call is made.
C1_MissingNameOrKeyGives400 ==
  \A i \in Invocations :
    MissingNameOrKey(i) => Done(i) /\ Returned(i, 400) /\ calls[i] = << >>

\* C2: for a valid notification whose signing call fails, the handler
\* returns statusCode 500 and never makes the publish call.
C2_SignFailureGives500NoPublish ==
  \A i \in Invocations :
    ValidNotification(i) /\ SignFailed(i) =>
      Done(i) /\ Returned(i, 500) /\ PublishCalls(i) = << >>

C2_Witness ==
  \E i \in Invocations :
    ValidNotification(i) /\ SignFailed(i) /\ Done(i)
    /\ IsClientError(calls[i][1].resp.exc)

\* C3: for a valid notification whose signing call succeeds and whose event
\* the bus does not accept, the handler returns statusCode 500, never 200.
C3_PublishFailureGives500 ==
  \A i \in Invocations :
    ValidNotification(i) /\ SignSucceeded(i) /\ PublishFailed(i) /\ Done(i) =>
      Returned(i, 500)

\* The value of a key of a serialised payload.
DetailField(detail, k) ==
  (CHOOSE n \in 1..Len(detail) : detail[n][1] = k)
DetailValue(detail, k) == detail[DetailField(detail, k)][2]

\* C4: for a valid notification where signing and publishing both succeed,
\* the handler returns statusCode 200 and has published exactly one event,
\* whose detail carries the input key as fileName, the input bucket name as
\* bucket and the URL the signing call returned as fileUrl.
C4_SuccessPublishesOneMatchingEvent ==
  \A i \in Invocations :
    ValidNotification(i) /\ SignSucceeded(i) /\ PublishSucceeded(i) =>
      /\ Done(i) /\ Returned(i, 200)
      /\ Len(PublishCalls(i)) = 1
      /\ Len(PublishCalls(i)[1].Entries) = 1
      /\ LET d == PublishCalls(i)[1].Entries[1].Detail
         IN  /\ DetailValue(d, "fileName") = ObjectKeyOf(event[i]).s
             /\ DetailValue(d, "bucket") = BucketNameOf(event[i]).s
             /\ DetailValue(d, "fileUrl") = SignCalls(i)[1].resp.url

C4_Witness ==
  \E i \in Invocations :
    ValidNotification(i) /\ SignSucceeded(i) /\ PublishSucceeded(i) /\ Done(i)

\* A fault other than invalid input: an outbound call raised, or the
\* configured expiration of a valid notification could not be read.
Faulted(i) ==
  \/ \E k \in 1..Len(calls[i]) : ~calls[i][k].resp.ok
  \/ ValidNotification(i) /\ ExpirationSeconds(environ).raised

\* C5: every invocation ends by returning a status/body pair with statusCode
\* 200, 400 or 500: while it has not returned its next step can be taken,
\* nothing is handed to the caller before the end, no fault reaches the
\* caller, and a fault other than invalid input yields 500.
C5_AlwaysReturnsStatus ==
  \A i \in Invocations :
    /\ Started(i) /\ ~Done(i) =>
         /\ ENABLED (Sign(i) \/ Publish(i))
         /\ result[i] = NoResult
    /\ Done(i) =>
         /\ result[i].kind = "return"
         /\ result[i].statusCode \in {200, 400, 500}
         /\ Faulted(i) => result[i].statusCode = 500

C5_Witness ==
  \E i \in Invocations :
    /\ Done(i) /\ ValidNotification(i)
    /\ Len(calls[i]) = 2 /\ ~calls[i][2].resp.ok
    /\ ~IsClientError(calls[i][2].resp.exc)
    /\ Returned(i, 500)

\* C7 as stated: the outcome returned after a failed signing call depends on
\* the cause (two failures with different causes give different outcomes),
\* and the signing call is made once.
C7_OutcomeCarriesCause ==
  \A i, j \in Invocations :
    /\ ValidNotification(i) /\ SignFailed(i) /\ Done(i)
    /\ ValidNotification(j) /\ SignFailed(j) /\ Done(j)
    /\ calls[i][1].resp.exc # calls[j][1].resp.exc
    => /\ result[i] # result[j]
       /\ Len(SignCalls(i)) = 1

\* C7 (amended): after a failed signing call the signing call is not retried
\* and statusCode 500 is returned.  When the failure is a ClientError the
\* body is the fixed message "Error generating pre-signed URL" whatever the
\* cause, and the cause is only written to the log; for any other fault the
\* body is "Unexpected error: " followed by the fault's message.
C7_SignFailureOutcome ==
  \A i \in Invocations :
    ValidNotification(i) /\ SignFailed(i) =>
      LET e == calls[i][1].resp.exc
      IN  /\ Done(i) /\ Returned(i, 500)
          /\ Len(SignCalls(i)) = 1
          /\ IF e.cls = "ClientError"
             THEN /\ result[i].body =
                       <<"\"", "Error generating pre-signed URL", "\"">>
                  /\ \E k \in 1..Len(log[i]) :
                       /\ log[i][k].level = "ERROR"
                       /\ log[i][k].text = "Failed to generate pre-signed URL: "
                       /\ log[i][k].args = e.msg
             ELSE result[i].body =
                    <<"\"", "Unexpected error: ">> \o e.msg \o <<"\"">>

C7_Witness ==
  \E i, j \in Invocations :
    /\ ValidNotification(i) /\ SignFailed(i) /\ Done(i)
    /\ ValidNotification(j) /\ SignFailed(j) /\ Done(j)
    /\ calls[i][1].resp.exc.cls = "ClientError"
    /\ calls[j][1].resp.exc.cls = "ClientError"
    /\ calls[i][1].resp.exc # calls[j][1].resp.exc
    /\ result[i] = result[j]

\* The operations of the outbound calls of an invocation, in order.
CallOps(i) == [k \in 1..Len(calls[i]) |-> calls[i][k].op]

C8_CallsArePrefix ==
  \A i \in Invocations :
    /\ CallOps(i) \in { << >>, <<"generate_presigned_url">>,
                        <<"generate_presigned_url", "put_events">> }
    /\ Len(calls[i]) = 2 => calls[i][1].resp.ok /\ pc[i] = "done"
    /\ result[i] # NoResult => pc[i] = "done"

C8_NoCallAfterOutcome ==
  \A i \in Invocations :
    (result[i] # NoResult \/ SignFailed(i) \/ PublishFailed(i))
      => calls'[i] = calls[i]

\* C8: the outbound calls of an invocation are a prefix of <signing call,
\* publish call>: each is made at most once, the publish call is made only
\* after the signing call has returned successfully, and no call is made once
\* a call has failed or an outcome has been returned.
C8_StrictSequenceNoRetry ==
  [] C8_CallsArePrefix /\ [][C8_NoCallAfterOutcome]_vars

C8_Witness ==
  \E i, j \in Invocations :
    /\ Done(i) /\ CallOps(i) = <<"generate_presigned_url", "put_events">>
    /\ Done(j) /\ CallOps(j) = <<"generate_presigned_url">> /\ SignFailed(j)

\* The configured text of URL_EXPIRATION_SECONDS without surrounding blanks.
RECURSIVE Trimmed(_)
Trimmed(t) ==
  IF t # << >> /\ t[1] = " " THEN Trimmed(Tail(t))
  ELSE IF t # << >> /\ t[Len(t)] = " " THEN Trimmed(SubSeq(t, 1, Len(t) - 1))
  ELSE t

\* n is the number of seconds the configuration asks for: 86400 when the
\* variable is absent, else the number whose decimal form is the value.
IsConfiguredSeconds(n) ==
  IF "URL_EXPIRATION_SECONDS" \in DOMAIN environ
  THEN IntToStr(n) = Trimmed(environ["URL_EXPIRATION_SECONDS"])
  ELSE n = 86400

\* C9: the validity passed to the signing call is the configured
\* URL_EXPIRATION_SECONDS, 86400 when it is absent, and the expirationTime of
\* the published event is format_expiration_time of that same number ("1 day"
\* under the default configuration).
C9_ExpirationFromConfiguration ==
  \A i \in Invocations :
    /\ \A k \in 1..Len(calls[i]) :
         IsSign(calls[i][k]) => IsConfiguredSeconds(calls[i][k].ExpiresIn)
    /\ ValidNotification(i) /\ pc[i] = "sign" =>
         IsConfiguredSeconds(locals[i].expiration_seconds)
    /\ \A k \in 1..Len(calls[i]) :
         IsPublish(calls[i][k]) =>
           LET label == DetailValue(calls[i][k].Entries[1].Detail,
                                    "expirationTime")
           IN  /\ label = format_expiration_time(SignCalls(i)[1].ExpiresIn)
               /\ "URL_EXPIRATION_SECONDS" \notin DOMAIN environ =>
                    label = <<"1", " ", "d", "a", "y">>

C9_Witness ==
  \E i, j \in Invocations :
    /\ "URL_EXPIRATION_SECONDS" \in DOMAIN environ
    /\ ValidNotification(i) /\ Done(i) /\ PublishCalls(i) # << >>
    /\ SignCalls(i)[1].ExpiresIn = 7200
    /\ DetailValue(PublishCalls(i)[1].Entries[1].Detail, "expirationTime")
         = <<"2", " ", "h", "o", "u", "r", "s">>
    /\ ValidNotification(j) /\ pc[j] = "sign"

\* The responses an invocation got to its own calls, in order.
Responses(i) == [k \in 1..Len(calls[i]) |-> calls[i][k].resp]

IsNumeralOf(t, q) ==
  /\ t # << >>
  /\ \A k \in 1..Len(t) : IsDigit(t[k])
  /\ Len(t) > 1 => t[1] # "0"
  /\ DigitsToNat(t) = q

\* lab is "<q> <word>" with exactly one blank, q the floor of n / size, and
\* the word in the singular exactly when q = 1 (never for seconds).
IsLabel(lab, n, size, singular, alwaysPlural) ==
  \E sp \in 1..Len(lab) :
    /\ lab[sp] = " "
    /\ \A k \in 1..Len(lab) : lab[k] = " " => k = sp
    /\ \E q \in 0..n :
         /\ q * size <= n /\ n < (q + 1) * size
         /\ IsNumeralOf(SubSeq(lab, 1, sp - 1), q)
         /\ SubSeq(lab, sp + 1, Len(lab)) =
              IF q = 1 /\ ~alwaysPlural THEN singular ELSE singular \o <<"s">>

\* C6: for every n >= 0, format_expiration_time(n) is "n seconds" below 60
\* (plural even for 1), whole minutes below 3600, whole hours below 86400 and
\* whole days from 86400 on, floor-divided, singular exactly when the count
\* is 1, with one unit only; in particular 30 -> "30 seconds",
\* 90 -> "1 minute", 7200 -> "2 hours", 86400 -> "1 day", 172800 -> "2 days".
C6_FormatMatchesReference ==
  fmtOut # << >> =>
    /\ fmtIn < 60 =>
         IsLabel(fmtOut, fmtIn, 1, <<"s", "e", "c", "o", "n", "d">>, TRUE)
    /\ 60 <= fmtIn /\ fmtIn < 3600 =>
         IsLabel(fmtOut, fmtIn, 60, <<"m", "i", "n", "u", "t", "e">>, FALSE)
    /\ 3600 <= fmtIn /\ fmtIn < 86400 =>
         IsLabel(fmtOut, fmtIn, 3600, <<"h", "o", "u", "r">>, FALSE)
    /\ 86400 <= fmtIn =>
         IsLabel(fmtOut, fmtIn, 86400, <<"d", "a", "y">>, FALSE)
    /\ fmtIn = 30 => fmtOut = <<"3", "0", " ", "s", "e", "c", "o", "n", "d", "s">>
    /\ fmtIn = 1 => fmtOut = <<"1", " ", "s", "e", "c", "o", "n", "d", "s">>
    /\ fmtIn = 90 => fmtOut = <<"1", " ", "m", "i", "n", "u", "t", "e">>
    /\ fmtIn = 7200 => fmtOut = <<"2", " ", "h", "o", "u", "r", "s">>
    /\ fmtIn = 86400 => fmtOut = <<"1", " ", "d", "a", "y">>
    /\ fmtIn = 172800 => fmtOut = <<"2", " ", "d", "a", "y", "s">>

C6_Witness == fmtIn = 172800 /\ fmtOut = <<"2", " ", "d", "a", "y", "s">>

====
